---- MODULE Spec2Model ----
(***************************************************************************)
(* Model of src/cli.py: the `download-models` command.  A manifest         *)
(* (models.json) is loaded and validated against the pydantic schema, then *)
(* every entry of its "ggufs" list is parsed, its directory created and    *)
(* its primary file and optional mmproj file fetched by _download_file.    *)
(* The command can be run any number of times against the same manifest   *)
(* and the same models directory; the files on disk are the only state     *)
(* that survives a run.                                                    *)
(***************************************************************************)
EXTENDS Naturals, Sequences, FiniteSets, TLC

VARIABLES
    manifest,   \* the raw document read from models.json
    overwrite,  \* the --overwrite flag of the current run
    pc,         \* position of the command: "idle", "loop", "fetch", "write"
    idx,        \* 1-based index of the gguf entry being processed
    call,       \* the _download_file call in progress (NoCall when none)
    remaining,  \* chunks of the source not yet written by that call
    files,      \* the files of the models directory: path -> chunks written
    dirs,       \* the directories created under the models directory
    result,     \* how the last run ended: "none", "ok" or the exception raised
    status,     \* history: per entry of this run, the state of its two fetches
    last,       \* history: the most recent completed _download_file call
    prev,       \* history: the completed call before `last`
    truncated   \* history: <<path, locator, content>> left by a failed stream

vars == <<manifest, overwrite, pc, idx, call, remaining, files, dirs, result,
          status, last, prev, truncated>>

(***************************************************************************)
(* Bounds of the model.                                                    *)
(***************************************************************************)
MaxGgufs == 2

(***************************************************************************)
(* Inputs.  A locator is a string; the model keeps its scheme prefix and   *)
(* the rest apart so that startswith("file://") and replace("file://","")  *)
(* can be computed.                                                        *)
(***************************************************************************)
LocalPresent == [scheme |-> "file://", rest |-> "/fixtures/model.gguf"]
LocalMissing == [scheme |-> "file://", rest |-> "/fixtures/missing.gguf"]
RemoteModel  == [scheme |-> "https://", rest |-> "host/model.gguf"]
RemoteMmproj == [scheme |-> "https://", rest |-> "host/mmproj.gguf"]

Names == {"a", "b"}
SafetensorsNames == {"a"}
UrlLocators == {LocalPresent, LocalMissing, RemoteModel}
MmprojLocators == {RemoteMmproj}

\* The local filesystem outside the models directory: path -> 1 MiB chunks.
LocalFiles == [p \in {"/fixtures/model.gguf"} |-> <<"L1">>]

\* The body the server sends for a locator, in chunks of chunk_size.
RemoteBody(url) ==
    IF url = RemoteModel THEN <<"R1", "R2">> ELSE <<"P1">>

\* The keys a raw gguf entry of the document may carry.  runtime_kwargs and
\* model_type have defaults and are left out of every entry.
GgufKeySets ==
    { {"name", "description", "url"},
      {"name", "description", "url", "mmproj"},
      {"name", "url"} }

RawGgufs ==
    [keys : GgufKeySets, name : Names, url : UrlLocators, mmproj : MmprojLocators]

RawSafetensors ==
    [keys : {{"name", "description"}}, name : SafetensorsNames]

SeqsUpTo(S, n) == UNION { [1..k -> S] : k \in 0..n }

Manifests ==
    [ggufs : SeqsUpTo(RawGgufs, MaxGgufs),
     safetensors : {<<>>} \cup {<<e>> : e \in RawSafetensors}]

(***************************************************************************)
(* Schema: BaseModelConfig, GGUFModelsConfig, SafetensorsModelsConfig,     *)
(* ModelsConfig.  A field declared with Field(...) or Field(description=)  *)
(* has no default and is required.                                         *)
(***************************************************************************)
BaseModelConfigRequired == {"name", "description"}

GGUFModelsConfigValid(e) == (BaseModelConfigRequired \cup {"url"}) \subseteq e.keys

SafetensorsModelsConfigValid(e) == BaseModelConfigRequired \subseteq e.keys

ModelsConfigValidLax(m) == TRUE

ModelsConfigValid(m) ==
    /\ \A i \in 1..Len(m.ggufs) : GGUFModelsConfigValid(m.ggufs[i])
    /\ \A i \in 1..Len(m.safetensors) : SafetensorsModelsConfigValid(m.safetensors[i])

\* GGUFModelsConfig(**model): the typed entry; mmproj is None when absent.
HasMmproj(e) == "mmproj" \in e.keys

(***************************************************************************)
(* Paths of download_model_files: <models>/<model_type>/<name>/ and the    *)
(* two file names "<name>.gguf" and "mmproj_<name>.gguf".                  *)
(***************************************************************************)
ModelDirectory(e) == <<"gguf", e.name>>

SafetensorsDirectory == <<"safetensors">>

PrimaryPath(e) == <<"gguf", e.name, <<"", e.name, ".gguf">> >>

MmprojPath(e) == <<"gguf", e.name, <<"mmproj_", e.name, ".gguf">> >>

Exists(fs, path) == path \in DOMAIN fs

\* open(path, 'wb'): the file is created, or truncated when present.
OpenForWrite(fs, path) ==
    [p \in (DOMAIN fs) \cup {path} |-> IF p = path THEN <<>> ELSE fs[p]]

\* out_file.write(chunk)
Append1(fs, path, chunk) == [fs EXCEPT ![path] = Append(@, chunk)]

\* The content of a path as a sequence of at most one element.
ContentOf(fs, path) == IF Exists(fs, path) THEN <<fs[path]>> ELSE <<>>

(***************************************************************************)
(* _download_file                                                          *)
(***************************************************************************)
NoLocator == [scheme |-> "", rest |-> ""]
NoPath == <<>>
NoCall == [kind |-> "none", url |-> NoLocator, dest |-> NoPath, io |-> FALSE]
NoRecord ==
    [url |-> NoLocator, dest |-> NoPath, existed |-> FALSE, io |-> FALSE,
     outcome |-> "none", after |-> <<>>]

\* if destination.exists(): return
SkipAlways(fs, path) == FALSE
ShouldSkip(fs, path) == Exists(fs, path)

\* str(url).startswith("file://")
IsLocal(url) == url.scheme = "file://"

\* str(url).replace("file://", "")
LocalPath(url) == url.rest

\* except requests.exceptions.RequestException
RequestExceptions == {"ConnectionError", "HTTPError", "ChunkedEncodingError"}
CaughtAny(exc) == TRUE
Caught(exc) == exc \in RequestExceptions

\* The kind of fetch failure an exception stands for.
FetchErrorOf(exc) ==
    CASE exc = "FileNotFoundError" -> "SourceNotFound"
      [] exc = "HTTPError" -> "HTTPStatus"
      [] OTHER -> "Transport"

\* with open(local_path, 'rb') as src, open(destination, 'wb') as dst:
\* the handles are opened left to right.
OpenOrderDstFirst == <<"dst", "src">>
OpenOrder == <<"src", "dst">>

\* The files after the `with` statement was entered with a missing source.
AfterFailedLocalOpen(fs, path) ==
    IF OpenOrder[1] = "dst" THEN OpenForWrite(fs, path) ELSE fs

\* What stays at the destination once the `with open(destination, 'wb')`
\* block is left by an exception: the handle is closed, nothing is removed.
AfterStreamErrorCleanup(fs, path) == [p \in (DOMAIN fs) \ {path} |-> fs[p]]
AfterStreamError(fs, path) == fs

(***************************************************************************)
(* download_models / download_model_files                                  *)
(***************************************************************************)
\* for model in models_definition.get("ggufs", []): only the gguf
\* collection of the document is iterated.
LoopEntries(m) == m.ggufs

\* parsed_model = GGUFModelsConfig(**model): the class of the object handed
\* to download_model_files.
ParsedClass(e) == "GGUFModelsConfig"

SkipIndex(i) == i + 2
NextIndex(i) == i + 1

Entry == LoopEntries(manifest)[idx]

FreshStatus ==
    [i \in 1..Len(LoopEntries(manifest)) |-> [primary |-> "pending", mmproj |-> "pending"]]

Init ==
    /\ manifest \in Manifests
    /\ overwrite = FALSE
    /\ pc = "idle"
    /\ idx = 0
    /\ call = NoCall
    /\ remaining = <<>>
    /\ files = <<>>
    /\ dirs = {}
    /\ result = "none"
    /\ status = FreshStatus
    /\ last = NoRecord
    /\ prev = NoRecord
    /\ truncated = {}

\* The record of the call that ends now with `outcome`, leaving files `fs`.
Record(outcome, fs, io) ==
    [url |-> call.url, dest |-> call.dest, existed |-> Exists(files, call.dest),
     io |-> io, outcome |-> outcome, after |-> ContentOf(fs, call.dest)]

\* _download_file returns to download_model_files, which goes on with the
\* mmproj file after the primary one, and returns to the loop otherwise.
Returns(outcome, fs, io) ==
    /\ files' = fs
    /\ prev' = last
    /\ last' = Record(outcome, fs, io)
    /\ remaining' = <<>>
    /\ IF call.kind = "primary" /\ HasMmproj(Entry)
       THEN /\ call' = [kind |-> "mmproj", url |-> Entry.mmproj,
                        dest |-> MmprojPath(Entry), io |-> FALSE]
            /\ status' = [status EXCEPT ![idx] =
                              [primary |-> outcome, mmproj |-> "inflight"]]
            /\ pc' = "fetch"
            /\ idx' = idx
       ELSE /\ call' = NoCall
            /\ status' = [status EXCEPT ![idx][call.kind] = outcome]
            /\ pc' = "loop"
            /\ idx' = NextIndex(idx)
    /\ UNCHANGED <<manifest, overwrite, dirs, result>>

\* An exception raised inside the try block of _download_file: a
\* RequestException is printed and the call returns; anything else leaves
\* _download_file, download_model_files and download_models.
Raises(exc, fs, io) ==
    IF Caught(exc)
    THEN Returns(FetchErrorOf(exc), fs, io)
    ELSE /\ files' = fs
         /\ prev' = last
         /\ last' = Record(FetchErrorOf(exc), fs, io)
         /\ remaining' = <<>>
         /\ call' = NoCall
         /\ status' = [status EXCEPT ![idx][call.kind] = FetchErrorOf(exc)]
         /\ pc' = "idle"
         /\ result' = exc
         /\ UNCHANGED <<manifest, overwrite, dirs, idx>>

\* download_models up to its loop: _load_and_validate_models.
RunStart ==
    /\ pc = "idle"
    /\ \E flag \in BOOLEAN : overwrite' = flag
    /\ status' = FreshStatus
    /\ IF ModelsConfigValid(manifest)
       THEN /\ pc' = "loop"
            /\ idx' = 1
            /\ result' = "none"
       ELSE /\ pc' = "idle"
            /\ idx' = 0
            /\ result' = "ValidationError"
    /\ UNCHANGED <<manifest, call, remaining, files, dirs, last, prev, truncated>>

\* The loop is exhausted: the command ends normally.
RunEnd ==
    /\ pc = "loop"
    /\ idx > Len(LoopEntries(manifest))
    /\ pc' = "idle"
    /\ result' = "ok"
    /\ UNCHANGED <<manifest, overwrite, idx, call, remaining, files, dirs, status,
                   last, prev, truncated>>

\* One iteration up to the first fetch: GGUFModelsConfig(**model), then
\* download_model_files: the isinstance dispatch, mkdir, and the call of
\* _download_file for the primary file.
ProcessEntry ==
    /\ pc = "loop"
    /\ idx <= Len(LoopEntries(manifest))
    /\ IF ~GGUFModelsConfigValid(Entry)
       THEN /\ pc' = "idle"
            /\ result' = "ValidationError"
            /\ UNCHANGED <<call, dirs, status>>
       ELSE IF ParsedClass(Entry) = "GGUFModelsConfig"
       THEN /\ dirs' = dirs \cup {ModelDirectory(Entry)}
            /\ call' = [kind |-> "primary", url |-> Entry.url,
                        dest |-> PrimaryPath(Entry), io |-> FALSE]
            /\ status' = [status EXCEPT ![idx].primary = "inflight"]
            /\ pc' = "fetch"
            /\ UNCHANGED result
       ELSE IF ParsedClass(Entry) = "SafetensorsModelsConfig"
       THEN /\ dirs' = dirs \cup {SafetensorsDirectory}
            /\ pc' = "idle"
            /\ result' = "NotImplementedError"
            /\ UNCHANGED <<call, status>>
       ELSE /\ pc' = "idle"
            /\ result' = "ValueError"
            /\ UNCHANGED <<call, dirs, status>>
    /\ UNCHANGED <<manifest, overwrite, idx, remaining, files, last, prev, truncated>>

\* _download_file: the destination exists, nothing is read or written.
FetchSkip ==
    /\ pc = "fetch"
    /\ ShouldSkip(files, call.dest)
    /\ Returns("skipped", files, FALSE)
    /\ UNCHANGED truncated

\* _download_file, file:// branch: both handles are opened.
FetchLocalOpen ==
    /\ pc = "fetch"
    /\ ~ShouldSkip(files, call.dest)
    /\ IsLocal(call.url)
    /\ IF LocalPath(call.url) \in DOMAIN LocalFiles
       THEN /\ files' = OpenForWrite(files, call.dest)
            /\ remaining' = LocalFiles[LocalPath(call.url)]
            /\ call' = [call EXCEPT !.io = TRUE]
            /\ pc' = "write"
            /\ UNCHANGED <<manifest, overwrite, idx, dirs, result, status, last,
                           prev>>
       ELSE Raises("FileNotFoundError", AfterFailedLocalOpen(files, call.dest), FALSE)
    /\ UNCHANGED truncated

\* _download_file, remote branch: requests.get, raise_for_status and the
\* opening of the destination.  The server and the network decide.
FetchRemoteRequest ==
    /\ pc = "fetch"
    /\ ~ShouldSkip(files, call.dest)
    /\ ~IsLocal(call.url)
    /\ \E answer \in {"ConnectionError", "HTTPError", "200"} :
          IF answer = "200"
          THEN /\ files' = OpenForWrite(files, call.dest)
               /\ remaining' = RemoteBody(call.url)
               /\ call' = [call EXCEPT !.io = TRUE]
               /\ pc' = "write"
               /\ UNCHANGED <<manifest, overwrite, idx, dirs, result, status,
                              last, prev>>
          ELSE Raises(answer, files, TRUE)
    /\ UNCHANGED truncated

\* One pass of the chunk loop (with or without a progress bar, and
\* shutil.copyfileobj alike): the next chunk is written.
WriteChunk ==
    /\ pc = "write"
    /\ remaining # <<>>
    /\ files' = Append1(files, call.dest, Head(remaining))
    /\ remaining' = Tail(remaining)
    /\ UNCHANGED <<manifest, overwrite, pc, idx, call, dirs, result, status, last,
                   prev, truncated>>

\* response.iter_content fails before the body is complete.
StreamError ==
    /\ pc = "write"
    /\ ~IsLocal(call.url)
    /\ remaining # <<>>
    /\ LET fs == AfterStreamError(files, call.dest)
       IN  /\ Raises("ChunkedEncodingError", fs, TRUE)
           /\ truncated' = truncated \cup {<<call.dest, call.url, files[call.dest]>>}

\* The source is exhausted: the handles are closed and the call returns.
FetchDone ==
    /\ pc = "write"
    /\ remaining = <<>>
    /\ Returns("ok", files, TRUE)
    /\ UNCHANGED truncated

Next ==
    \/ RunStart
    \/ RunEnd
    \/ ProcessEntry
    \/ FetchSkip
    \/ FetchLocalOpen
    \/ FetchRemoteRequest
    \/ WriteChunk
    \/ StreamError
    \/ FetchDone

Spec == Init /\ [][Next]_vars

(***************************************************************************)
(* Properties                                                              *)
(***************************************************************************)
Failures == {"SourceNotFound", "HTTPStatus", "Transport"}

AllNames ==
    [i \in 1..Len(manifest.ggufs) |-> manifest.ggufs[i].name]
        \o [i \in 1..Len(manifest.safetensors) |-> manifest.safetensors[i].name]

UniqueNames == \A i, j \in 1..Len(AllNames) : i # j => AllNames[i] # AllNames[j]

Finished(s) == s \notin {"pending", "inflight"}

SameArguments ==
    /\ prev.outcome # "none"
    /\ last.outcome # "none"
    /\ prev.url = last.url
    /\ prev.dest = last.dest

\* C1 as stated: of two consecutive _download_file calls with the same
\* locator and destination, the second one does no I/O, is a skip, and
\* leaves the destination as the first one left it, whatever the first did
\* (looked at on manifests whose names are all distinct).
C1_IdempotentAlways ==
    (UniqueNames /\ SameArguments) =>
        /\ ~last.io
        /\ last.outcome = "skipped"
        /\ last.after = prev.after

\* C1 amended: of two consecutive _download_file calls with the same locator
\* and destination, when the destination exists after the first call, the
\* second call does no I/O, is a skip, and leaves the content unchanged.
C1_IdempotentOncePresent ==
    (SameArguments /\ prev.after # <<>>) =>
        /\ ~last.io
        /\ last.outcome = "skipped"
        /\ last.after = prev.after

C1_Witness ==
    /\ SameArguments
    /\ prev.io
    /\ prev.outcome = "ok"
    /\ last.outcome = "skipped"
    /\ last.after = <<RemoteBody(RemoteModel)>>

\* C2: a run over a valid manifest with one gguf entry whose local source
\* exists and one safetensors entry ends in NotImplementedError, after the
\* gguf file was written with the bytes of the source.
C2_FamilyGating ==
    ( /\ pc = "idle"
      /\ result \notin {"none", "ValidationError"}
      /\ Len(manifest.ggufs) = 1
      /\ Len(manifest.safetensors) = 1
      /\ manifest.ggufs[1].url = LocalPresent
      /\ ~HasMmproj(manifest.ggufs[1]) ) =>
        /\ result = "NotImplementedError"
        /\ ContentOf(files, PrimaryPath(manifest.ggufs[1]))
               = <<LocalFiles[LocalPath(LocalPresent)]>>

\* C3 as stated: when the fetch of an entry's primary file failed (missing
\* local source, HTTP status or transport), the fetch of its mmproj file is
\* not attempted.
C3_NoAuxAfterAnyFailure ==
    \A i \in DOMAIN status :
        status[i].primary \in Failures => status[i].mmproj = "pending"

\* C3 amended: when the primary fetch failed by a missing local source the
\* mmproj fetch is not attempted; when it failed by an HTTP status or a
\* transport failure and the entry has an mmproj locator, the mmproj fetch
\* is attempted all the same.
C3_AuxAfterPrimaryFailure ==
    \A i \in DOMAIN status :
        /\ status[i].primary = "SourceNotFound" => status[i].mmproj = "pending"
        /\ (status[i].primary \in {"HTTPStatus", "Transport"}
                /\ HasMmproj(manifest.ggufs[i]))
              => status[i].mmproj # "pending"

C3_Witness ==
    /\ Len(manifest.ggufs) = 2
    /\ status[1].primary = "HTTPStatus"
    /\ status[1].mmproj = "ok"
    /\ HasMmproj(manifest.ggufs[2])
    /\ status[2].primary = "SourceNotFound"
    /\ status[2].mmproj = "pending"

\* C4: a fetch failure of any kind on one gguf entry leaves the later
\* entries processed: once the run over a valid manifest has ended, every
\* entry after a failed one had its directory made and its fetch attempted.
C4_FailureNotFatalToSiblings ==
    (pc = "idle" /\ result \notin {"none", "ValidationError"}) =>
        \A i, j \in DOMAIN status :
            ( /\ i < j
              /\ (status[i].primary \in Failures \/ status[i].mmproj \in Failures) )
            => /\ status[j].primary # "pending"
               /\ ModelDirectory(manifest.ggufs[j]) \in dirs

\* C5: a _download_file call with a file:// locator whose path does not
\* exist, to a destination that does not exist, ends in SourceNotFound and
\* leaves no file at the destination.
C5_MissingLocalSource ==
    ( /\ last.outcome # "none"
      /\ IsLocal(last.url)
      /\ LocalPath(last.url) \notin DOMAIN LocalFiles
      /\ ~last.existed ) =>
        /\ last.outcome = "SourceNotFound"
        /\ last.after = <<>>

C5_Witness ==
    /\ pc = "idle"
    /\ result = "FileNotFoundError"
    /\ last.url = LocalMissing
    /\ ~last.existed
    /\ last.outcome = "SourceNotFound"
    /\ ~Exists(files, last.dest)

\* C6: a manifest that passed validation has pairwise distinct entry names
\* across both families.
C6_UniqueNames ==
    pc \in {"loop", "fetch", "write"} => UniqueNames

\* C7: a run that ends in the validation error has created no directory,
\* started no fetch and written no file.
C7_FailBeforeIO ==
    result = "ValidationError" =>
        /\ dirs = {}
        /\ files = <<>>
        /\ call = NoCall
        /\ last = NoRecord
        /\ status = FreshStatus

C7_Witness ==
    /\ pc = "idle"
    /\ result = "ValidationError"
    /\ Len(manifest.ggufs) = 2
    /\ GGUFModelsConfigValid(manifest.ggufs[1])
    /\ manifest.ggufs[1].url = LocalPresent
    /\ ~GGUFModelsConfigValid(manifest.ggufs[2])

\* C8: the gguf entries are processed in manifest order with at most one
\* fetch in flight: every entry before the current one has finished its
\* fetches, no entry after it has begun, and within an entry the mmproj
\* fetch begins only after the primary one has finished.
C8_Sequential ==
    /\ Cardinality({<<i, k>> \in (DOMAIN status) \X {"primary", "mmproj"} :
                        status[i][k] = "inflight"}) <= 1
    /\ \A i \in DOMAIN status :
        /\ i < idx => /\ Finished(status[i].primary)
                      /\ HasMmproj(manifest.ggufs[i]) => Finished(status[i].mmproj)
        /\ i > idx => /\ status[i].primary = "pending"
                      /\ status[i].mmproj = "pending"
        /\ status[i].mmproj # "pending" => Finished(status[i].primary)

C8_Witness ==
    /\ pc = "write"
    /\ idx = 2
    /\ call.kind = "mmproj"
    /\ status[1].primary = "ok"
    /\ status[1].mmproj = "Transport"
    /\ status[2].primary = "ok"
    /\ status[2].mmproj = "inflight"

\* C9: in a run with --overwrite no fetch is skipped because its
\* destination exists: a file already present is fetched again (looked at
\* on manifests whose names are all distinct).
C9_OverwriteRefetches ==
    (UniqueNames /\ overwrite) =>
        \A i \in DOMAIN status :
            /\ status[i].primary # "skipped"
            /\ status[i].mmproj # "skipped"

====
